---- MODULE Spec2Model ----
(***************************************************************************)
(* Model of the movie-catalog enrichment and reporting scripts:            *)
(*   src/pandas_ej.py        providers_to_list, coerce_year,               *)
(*                           avg_rating_by_genre_last5                     *)
(*   src/sync_fight_club.py  to_int_or_none, find_film,                    *)
(*                           format_providers_entry,                       *)
(*                           update_movie_with_tmdb, update_by_tmdb_id,    *)
(*                           main                                          *)
(*                                                                         *)
(* Python strings are sequences of one-character strings, so that strip,   *)
(* split, int() and the ordering used by sorted() are computed and not     *)
(* assumed.  A Python call that may raise yields a record with a `raised`  *)
(* flag.  Floating-point ratings are exact rationals: an integer number of *)
(* thousandths, a mean being the pair (sum, count).                        *)
(***************************************************************************)
EXTENDS Integers, Sequences, FiniteSets, TLC

VARIABLES
    pregion,      \* providers_to_list: the argument
    provs,        \* providers_to_list: the outcome, or Pending
    yearIn,       \* coerce_year / to_int_or_none: the argument
    yearOut,      \* coerce_year / to_int_or_none: the two outcomes, or Pending
    titles,       \* col_titles restricted to the window: sequence of records
    ratings,      \* col_ratings: sequence of records
    ratingsUp,    \* FALSE when reading col_ratings raises
    report,       \* avg_rating_by_genre_last5: what the run produced, or Pending
    collection,   \* the Mongo collection of sync_fight_club.py: _id -> document
    run           \* sync_fight_club.py: the last call made and how it ended

vars == <<pregion, provs, yearIn, yearOut, titles, ratings, ratingsUp, report,
          collection, run>>

\* the outcome of a call: not made yet, returned `value`, or raised
Pending == [done |-> FALSE, raised |-> FALSE, value |-> <<>>]
Returned(v) == [done |-> TRUE, raised |-> FALSE, value |-> v]
Raised == [done |-> TRUE, raised |-> TRUE, value |-> <<>>]

(***************************************************************************)
(* Python strings                                                          *)
(***************************************************************************)

\* Code points of the characters the model uses (the order sorted() applies).
Ord(c) ==
    CASE c = " "  -> 32
      [] c = "," -> 44
      [] c = "-" -> 45
      [] c = "0" -> 48
      [] c = "1" -> 49
      [] c = "2" -> 50
      [] c = "3" -> 51
      [] c = "4" -> 52
      [] c = "5" -> 53
      [] c = "6" -> 54
      [] c = "7" -> 55
      [] c = "8" -> 56
      [] c = "9" -> 57
      [] c = "A" -> 65
      [] c = "B" -> 66
      [] c = "D" -> 68
      [] c = "N" -> 78
      [] c = "T" -> 84
      [] c = "\\" -> 92
      [] c = "a" -> 97
      [] c = "b" -> 98
      [] OTHER -> 127

IsSpace(c) == c = " "

RECURSIVE LStrip(_)
LStrip(s) ==
    IF s = <<>> THEN <<>>
    ELSE IF IsSpace(Head(s)) THEN LStrip(Tail(s))
    ELSE s

RECURSIVE RStrip(_)
RStrip(s) ==
    IF s = <<>> THEN <<>>
    ELSE IF IsSpace(s[Len(s)]) THEN RStrip(SubSeq(s, 1, Len(s) - 1))
    ELSE s

\* str.strip()
Strip(s) == RStrip(LStrip(s))

\* a < b for Python strings: lexicographic on code points
RECURSIVE StrLess(_, _)
StrLess(a, b) ==
    IF b = <<>> THEN FALSE
    ELSE IF a = <<>> THEN TRUE
    ELSE IF Ord(Head(a)) < Ord(Head(b)) THEN TRUE
    ELSE IF Ord(Head(a)) > Ord(Head(b)) THEN FALSE
    ELSE StrLess(Tail(a), Tail(b))

Range(f) == {f[i] : i \in DOMAIN f}

\* dict.fromkeys(names) as a list: first occurrences, in order
RECURSIVE DictFromKeys(_)
DictFromKeys(names) ==
    IF names = <<>> THEN <<>>
    ELSE LET init == DictFromKeys(SubSeq(names, 1, Len(names) - 1))
             last == names[Len(names)]
         IN  IF last \in Range(init) THEN init ELSE Append(init, last)

\* insertion of one string into an ascending list, after its equals (stable)
RECURSIVE InsertStr(_, _)
InsertStr(sorted, s) ==
    IF sorted = <<>> THEN <<s>>
    ELSE IF StrLess(s, Head(sorted)) THEN <<s>> \o sorted
    ELSE <<Head(sorted)>> \o InsertStr(Tail(sorted), s)

\* the list as it reaches the caller without sorted()
UnsortedStr(names) == names

\* sorted(names) on a list of strings
RECURSIVE SortedStr(_)
SortedStr(names) ==
    IF names = <<>> THEN <<>>
    ELSE InsertStr(SortedStr(SubSeq(names, 1, Len(names) - 1)), names[Len(names)])

\* [n for n in names if n]
RECURSIVE NonEmpty(_)
NonEmpty(names) ==
    IF names = <<>> THEN <<>>
    ELSE IF Head(names) = <<>> THEN NonEmpty(Tail(names))
    ELSE <<Head(names)>> \o NonEmpty(Tail(names))

Digit(d) ==
    CASE d = 0 -> "0" [] d = 1 -> "1" [] d = 2 -> "2" [] d = 3 -> "3"
      [] d = 4 -> "4" [] d = 5 -> "5" [] d = 6 -> "6" [] d = 7 -> "7"
      [] d = 8 -> "8" [] d = 9 -> "9"

\* str(n) for an integer
RECURSIVE IntToStr(_)
IntToStr(n) ==
    IF n < 0 THEN <<"-">> \o IntToStr(0 - n)
    ELSE IF n < 10 THEN <<Digit(n)>>
    ELSE IntToStr(n \div 10) \o <<Digit(n % 10)>>

(***************************************************************************)
(* Python values reaching providers_to_list                                *)
(***************************************************************************)

\* a scalar found under a key of a provider object: None (or key missing),
\* a string or an integer
NoneV == [t |-> "none", s |-> <<>>, n |-> 0]
StrV(s) == [t |-> "str", s |-> s, n |-> 0]
IntV(n) == [t |-> "int", s |-> <<>>, n |-> n]

\* bool(v)
Truthy(v) ==
    CASE v.t = "none" -> FALSE
      [] v.t = "str" -> v.s # <<>>
      [] v.t = "int" -> v.n # 0

\* str(v) of a truthy scalar
ToStr(v) == IF v.t = "str" THEN v.s ELSE IntToStr(v.n)

\* an element of a provider list: a string, a dict (its provider_name and
\* name), or anything else (None, a number, a nested list)
StrE(s) == [t |-> "str", s |-> s, pn |-> NoneV, nm |-> NoneV]
DictE(pn, nm) == [t |-> "dict", s |-> <<>>, pn |-> pn, nm |-> nm]
OtherE == [t |-> "other", s |-> <<>>, pn |-> NoneV, nm |-> NoneV]

\* the value under a key of the region dict: missing/None, a list, or a
\* value of another type, truthy ("https://...", 5) or falsy ("", 0)
NoKind == [t |-> "none", items |-> <<>>, truthy |-> FALSE]
ListKind(items) == [t |-> "list", items |-> items, truthy |-> items # <<>>]
OtherKind(truthy) == [t |-> "other", items |-> <<>>, truthy |-> truthy]

\* the argument: None, a list, a dict, or another type
NoneP == [t |-> "none", items |-> <<>>,
          flatrate |-> NoKind, rent |-> NoKind, buy |-> NoKind, ads |-> NoKind]
ListP(items) == [NoneP EXCEPT !.t = "list", !.items = items]
DictP(f, r, b, a) == [t |-> "dict", items |-> <<>>,
                      flatrate |-> f, rent |-> r, buy |-> b, ads |-> a]
OtherP == [NoneP EXCEPT !.t = "other"]

(***************************************************************************)
(* providers_to_list                                                       *)
(***************************************************************************)

\* one pass of the element loop: the names an element appends (0 or 1)
ElemNames(x) ==
    IF x.t = "str" THEN <<Strip(x.s)>>
    ELSE IF x.t = "dict"
    THEN LET name == IF Truthy(x.pn) THEN x.pn ELSE x.nm
         IN  IF Truthy(name) THEN <<Strip(ToStr(name))>> ELSE <<>>
    ELSE <<>>

\* the element loop over a list
RECURSIVE ListNames(_)
ListNames(items) ==
    IF items = <<>> THEN <<>>
    ELSE ElemNames(Head(items)) \o ListNames(Tail(items))

\* the loop body without the isinstance(arr, list) test: iterating a truthy
\* value that is no list raises TypeError
KindNamesUnchecked(v) ==
    IF ~v.truthy THEN [raised |-> FALSE, names |-> <<>>]
    ELSE IF v.t = "list" THEN [raised |-> FALSE, names |-> ListNames(v.items)]
    ELSE [raised |-> TRUE, names |-> <<>>]

\* the body of `for kind in ...`: arr = pregion.get(kind) or []
KindNames(v) ==
    LET arr == IF v.truthy THEN v ELSE ListKind(<<>>)
    IN  IF arr.t = "list"
        THEN [raised |-> FALSE, names |-> ListNames(arr.items)]
        ELSE [raised |-> FALSE, names |-> <<>>]

\* a loop that forgets the purchase offers
KindsWithoutBuy == <<"flatrate", "rent">>

\* the kinds the dict branch visits, in order
Kinds == <<"flatrate", "rent", "buy">>

RECURSIVE KindsNames(_, _)
KindsNames(p, kinds) ==
    IF kinds = <<>> THEN [raised |-> FALSE, names |-> <<>>]
    ELSE LET first == KindNames(p[Head(kinds)])
             rest  == KindsNames(p, Tail(kinds))
         IN  IF first.raised \/ rest.raised
             THEN [raised |-> TRUE, names |-> <<>>]
             ELSE [raised |-> FALSE, names |-> first.names \o rest.names]

providers_to_list(p) ==
    IF p.t = "none" THEN Returned(<<>>)
    ELSE IF p.t = "list"
    THEN Returned(SortedStr(DictFromKeys(NonEmpty(ListNames(p.items)))))
    ELSE IF p.t = "dict"
    THEN LET got == KindsNames(p, Kinds)
         IN  IF got.raised THEN Raised
             ELSE Returned(SortedStr(DictFromKeys(NonEmpty(got.names))))
    ELSE Returned(<<>>)

(***************************************************************************)
(* Inputs of providers_to_list                                             *)
(***************************************************************************)

MaxItems == 2

SeqsUpTo(S, n) == UNION {[1..k -> S] : k \in 0..n}

ElemPool ==
    { StrE(<<" ", "B", " ">>),
      StrE(<<"A", " ", "b">>),
      StrE(<<" ">>),
      DictE(StrV(<<"B">>), NoneV),
      DictE(StrV(<<>>), StrV(<<"b", " ">>)),
      DictE(StrV(<<" ">>), StrV(<<"A">>)),
      DictE(IntV(7), NoneV),
      OtherE }

Keys == {"flatrate", "rent", "buy", "ads"}

\* a key whose value is no list, or none such
OddShapes ==
    { [key |-> "-", v |-> NoKind],
      [key |-> "flatrate", v |-> OtherKind(TRUE)],
      [key |-> "rent", v |-> NoKind],
      [key |-> "buy", v |-> OtherKind(FALSE)] }

RECURSIVE ItemsOf(_, _)
ItemsOf(offers, key) ==
    IF offers = <<>> THEN <<>>
    ELSE IF Head(offers).key = key
    THEN <<Head(offers).e>> \o ItemsOf(Tail(offers), key)
    ELSE ItemsOf(Tail(offers), key)

KeyedInput(offers, odd) ==
    LET val(key) == IF odd.key = key THEN odd.v ELSE ListKind(ItemsOf(offers, key))
    IN  DictP(val("flatrate"), val("rent"), val("buy"), val("ads"))

NormInputs ==
    {NoneP, OtherP}
    \cup {ListP(items) : items \in SeqsUpTo(ElemPool, MaxItems)}
    \cup {KeyedInput(offers, odd) :
            offers \in SeqsUpTo([key : Keys, e : ElemPool], MaxItems),
            odd \in OddShapes}

(***************************************************************************)
(* coerce_year (pandas_ej.py) and to_int_or_none (sync_fight_club.py)      *)
(***************************************************************************)

\* a year-like value: None, a string, an int, a float (in thousandths; NaN
\* apart) or a value of another type (a list, a dict)
NoneY == [t |-> "none", s |-> <<>>, n |-> 0]
StrY(s) == [t |-> "str", s |-> s, n |-> 0]
IntY(n) == [t |-> "int", s |-> <<>>, n |-> n]
FloatY(milli) == [t |-> "float", s |-> <<>>, n |-> milli]
NanY == [t |-> "nan", s |-> <<>>, n |-> 0]
OtherY == [t |-> "other", s |-> <<>>, n |-> 0]

\* what a conversion hands back: None, an integer, or an exception
NoneR == [raised |-> FALSE, none |-> TRUE, n |-> 0]
IntR(n) == [raised |-> FALSE, none |-> FALSE, n |-> n]
RaisedR == [raised |-> TRUE, none |-> FALSE, n |-> 0]

IsDigit(c) == c \in {"0", "1", "2", "3", "4", "5", "6", "7", "8", "9"}

DigitVal(c) == Ord(c) - Ord("0")

\* the value of a string of decimal digits
RECURSIVE DigitsVal(_)
DigitsVal(ds) ==
    IF ds = <<>> THEN 0
    ELSE 10 * DigitsVal(SubSeq(ds, 1, Len(ds) - 1)) + DigitVal(ds[Len(ds)])

AllDigits(ds) == ds # <<>> /\ \A i \in DOMAIN ds : IsDigit(ds[i])

\* int(s) for a string: surrounding whitespace, an optional sign, digits
PyIntStr(s) ==
    LET t    == Strip(s)
        neg  == t # <<>> /\ Head(t) = "-"
        body == IF neg THEN Tail(t) ELSE t
    IN  IF AllDigits(body)
        THEN IntR(IF neg THEN 0 - DigitsVal(body) ELSE DigitsVal(body))
        ELSE RaisedR

\* int(x) for a float given in thousandths: truncation towards zero
TruncMilli(m) == IF m >= 0 THEN m \div 1000 ELSE 0 - ((0 - m) \div 1000)

\* int(v)
PyInt(v) ==
    CASE v.t = "int" -> IntR(v.n)
      [] v.t = "str" -> PyIntStr(v.s)
      [] v.t = "float" -> IntR(TruncMilli(v.n))
      [] OTHER -> RaisedR

\* v in (None, "", "\\N")
IsMissingToken(v) ==
    \/ v.t = "none"
    \/ v.t = "str" /\ v.s = <<>>
    \/ v.t = "str" /\ v.s = <<"\\", "N">>

\* the conversion with no except clause around int(v)
coerce_year_uncaught(v) ==
    IF IsMissingToken(v) THEN NoneR ELSE PyInt(v)

coerce_year(v) ==
    IF IsMissingToken(v) THEN NoneR
    ELSE LET r == PyInt(v) IN IF r.raised THEN NoneR ELSE r

to_int_or_none(v) ==
    LET r == IF IsMissingToken(v) THEN NoneR ELSE PyInt(v)
    IN  IF r.raised THEN NoneR ELSE r

MaxYearLen == 2

YearChars == {"0", "1", "9", "a", " ", "-", "\\", "N"}

YearInputs ==
    {NoneY, NanY, OtherY, IntY(0), IntY(1999), IntY(0 - 5),
     FloatY(1999000), FloatY(1999700), FloatY(0 - 1500),
     StrY(<<"1", "9", "9", "9">>), StrY(<<"a", "b", "c">>),
     StrY(<<" ", "1", "9", "9", "9", " ">>)}
    \cup {StrY(s) : s \in SeqsUpTo(YearChars, MaxYearLen)}

PendingY == [done |-> FALSE, coerce |-> NoneR, toint |-> NoneR]

(***************************************************************************)
(* avg_rating_by_genre_last5                                               *)
(***************************************************************************)

\* A title document of the window as the projection returns it: its tconst
\* and its genres string, `has` being FALSE when the document has no genres
\* field.  A rating document: its tconst and its averageRating in
\* thousandths, `has` being FALSE when the field is missing.
Title(tconst, hasGenres, genres) ==
    [tconst |-> tconst, has |-> hasGenres, genres |-> genres]
Rating(tconst, hasAvg, avg) == [tconst |-> tconst, has |-> hasAvg, avg |-> avg]

MissingToken == <<"\\", "N">>

\* s.split(",")
RECURSIVE SplitFrom(_, _)
SplitFrom(s, cur) ==
    IF s = <<>> THEN <<cur>>
    ELSE IF Head(s) = "," THEN <<cur>> \o SplitFrom(Tail(s), <<>>)
    ELSE SplitFrom(Tail(s), Append(cur, Head(s)))

Split(s) == SplitFrom(s, <<>>)

RECURSIVE StripAll(_)
StripAll(parts) ==
    IF parts = <<>> THEN <<>>
    ELSE <<Strip(Head(parts))>> \o StripAll(Tail(parts))

\* the lambda of line 148
GenresList(s) ==
    IF s = <<>> \/ s = MissingToken THEN <<>>
    ELSE NonEmpty(StripAll(Split(s)))

\* the rating records of one tconst, in the order of the ratings frame
RECURSIVE Matches(_, _)
Matches(rs, tconst) ==
    IF rs = <<>> THEN <<>>
    ELSE IF Head(rs).tconst = tconst
    THEN <<Head(rs)>> \o Matches(Tail(rs), tconst)
    ELSE Matches(Tail(rs), tconst)

RECURSIVE RowsOf(_, _)
RowsOf(t, ms) ==
    IF ms = <<>> THEN <<>>
    ELSE <<[tconst |-> t.tconst, genres |-> t.genres,
            rated |-> Head(ms).has, avg |-> IF Head(ms).has THEN Head(ms).avg ELSE 0]>>
         \o RowsOf(t, Tail(ms))

\* a row of the joined frame for a title no rating record matches
Unrated(t) == [tconst |-> t.tconst, genres |-> t.genres, rated |-> FALSE, avg |-> 0]

\* df_t.merge(df_r, on="tconst", how="left"); genres is "" where the field
\* is missing, as fillna("") leaves it
RECURSIVE LeftJoin(_, _)
LeftJoin(ts, rs) ==
    IF ts = <<>> THEN <<>>
    ELSE LET t  == [Head(ts) EXCEPT !.genres = IF Head(ts).has THEN @ ELSE <<>>]
             ms == Matches(rs, t.tconst)
         IN  (IF ms = <<>> THEN <<Unrated(t)>> ELSE RowsOf(t, ms))
             \o LeftJoin(Tail(ts), rs)

\* df_t.copy() with averageRating = pd.NA
RECURSIVE AllUnrated(_)
AllUnrated(ts) ==
    IF ts = <<>> THEN <<>>
    ELSE <<Unrated([Head(ts) EXCEPT !.genres = IF Head(ts).has THEN @ ELSE <<>>])>>
         \o AllUnrated(Tail(ts))

RECURSIVE TagRows(_, _)
TagRows(row, tags) ==
    IF tags = <<>> THEN <<>>
    ELSE <<[tconst |-> row.tconst, hasTag |-> TRUE, tag |-> Head(tags),
            rated |-> row.rated, avg |-> row.avg]>>
         \o TagRows(row, Tail(tags))

\* df.explode("genres_list"): an empty list leaves one row without a tag
RECURSIVE Explode(_)
Explode(rows) ==
    IF rows = <<>> THEN <<>>
    ELSE LET tags == GenresList(Head(rows).genres)
         IN  (IF tags = <<>>
              THEN <<[tconst |-> Head(rows).tconst, hasTag |-> FALSE, tag |-> <<>>,
                      rated |-> Head(rows).rated, avg |-> Head(rows).avg]>>
              ELSE TagRows(Head(rows), tags))
             \o Explode(Tail(rows))

\* line 152
RECURSIVE WithGenre(_)
WithGenre(rows) ==
    IF rows = <<>> THEN <<>>
    ELSE IF Head(rows).hasTag /\ Head(rows).tag # <<>>
    THEN <<Head(rows)>> \o WithGenre(Tail(rows))
    ELSE WithGenre(Tail(rows))

\* a frame in which a missing rating became 0 (fillna(0)) and stays
RECURSIVE ZeroFilled(_)
ZeroFilled(rows) ==
    IF rows = <<>> THEN <<>>
    ELSE <<[Head(rows) EXCEPT !.rated = TRUE]>> \o ZeroFilled(Tail(rows))

\* line 153
RECURSIVE WithRating(_)
WithRating(rows) ==
    IF rows = <<>> THEN <<>>
    ELSE IF Head(rows).rated
    THEN <<Head(rows)>> \o WithRating(Tail(rows))
    ELSE WithRating(Tail(rows))

RECURSIVE TagsOf(_)
TagsOf(rows) ==
    IF rows = <<>> THEN <<>>
    ELSE <<Head(rows).tag>> \o TagsOf(Tail(rows))

RECURSIVE SumOf(_, _)
SumOf(rows, tag) ==
    IF rows = <<>> THEN 0
    ELSE (IF Head(rows).tag = tag THEN Head(rows).avg ELSE 0) + SumOf(Tail(rows), tag)

RECURSIVE CountOf(_, _)
CountOf(rows, tag) ==
    IF rows = <<>> THEN 0
    ELSE (IF Head(rows).tag = tag THEN 1 ELSE 0) + CountOf(Tail(rows), tag)

\* groupby("genres_list").mean(): one row per tag, tags ascending; the mean
\* is kept as the pair (sum, cnt)
GroupMean(rows) ==
    LET keys == SortedStr(DictFromKeys(TagsOf(rows)))
    IN  [i \in DOMAIN keys |->
            [genre |-> keys[i], sum |-> SumOf(rows, keys[i]), cnt |-> CountOf(rows, keys[i])]]

\* round(2) of sum/cnt thousandths, in hundredths, halves to even
Round2(g) ==
    LET d == 10 * g.cnt
        q == g.sum \div d
        r == g.sum % d
    IN  IF 2 * r < d THEN q
        ELSE IF 2 * r > d THEN q + 1
        ELSE IF q % 2 = 0 THEN q ELSE q + 1

\* an ordering that compares the means as they are displayed
RowBeforeRounded(a, b) ==
    \/ Round2(a) > Round2(b)
    \/ Round2(a) = Round2(b) /\ StrLess(a.genre, b.genre)

\* the order of sort_values(by=["avgRating", "genre"], ascending=[False, True])
RowBefore(a, b) ==
    \/ a.sum * b.cnt > b.sum * a.cnt
    \/ a.sum * b.cnt = b.sum * a.cnt /\ StrLess(a.genre, b.genre)

RECURSIVE InsertRow(_, _)
InsertRow(sorted, g) ==
    IF sorted = <<>> THEN <<g>>
    ELSE IF RowBefore(g, Head(sorted)) THEN <<g>> \o sorted
    ELSE <<Head(sorted)>> \o InsertRow(Tail(sorted), g)

RECURSIVE SortValues(_)
SortValues(gs) ==
    IF gs = <<>> THEN <<>>
    ELSE InsertRow(SortValues(SubSeq(gs, 1, Len(gs) - 1)), gs[Len(gs)])

\* lines 168-169: the displayed table
Shown(out) == [i \in DOMAIN out |-> [genre |-> out[i].genre, avg |-> Round2(out[i])]]

PendingReport ==
    [done |-> FALSE, status |-> "pending", joined |-> <<>>, out |-> <<>>, shown |-> <<>>]

Report(status, joined, out) ==
    [done |-> TRUE, status |-> status, joined |-> joined, out |-> out,
     shown |-> Shown(out)]

\* the whole of avg_rating_by_genre_last5 on the titles of the window
avg_rating_by_genre_last5(ts, rs, up) ==
    IF ts = <<>> THEN Report("no_titles", <<>>, <<>>)
    ELSE
      LET mergeRaises == ~up \/ rs = <<>>
          joined      == IF mergeRaises THEN AllUnrated(ts) ELSE LeftJoin(ts, rs)
          hasGenres   == \E i \in DOMAIN ts : ts[i].has
          hasAvg      == mergeRaises \/ \E i \in DOMAIN rs : rs[i].has
          out         == SortValues(GroupMean(WithRating(WithGenre(Explode(joined)))))
      IN  IF ~hasGenres \/ ~hasAvg THEN Report("raised", joined, <<>>)
          ELSE IF out = <<>> THEN Report("no_ratings", joined, <<>>)
          ELSE Report("table", joined, out)

MaxTitles == 2
MaxRatings == 2

GenrePool ==
    { [has |-> FALSE, s |-> <<>>],
      [has |-> TRUE, s |-> <<>>],
      [has |-> TRUE, s |-> MissingToken],
      [has |-> TRUE, s |-> <<"D">>],
      [has |-> TRUE, s |-> <<"T", ",", " ", ",", " ", "D">>],
      [has |-> TRUE, s |-> <<"D", ",", "D">>] }

RatingPool ==
    { [has |-> FALSE, avg |-> 0],
      [has |-> TRUE, avg |-> 6000],
      [has |-> TRUE, avg |-> 7996],
      [has |-> TRUE, avg |-> 8000] }

\* the window's titles: the i-th has tconst i
TitleInputs ==
    { [i \in DOMAIN gs |-> Title(i, gs[i].has, gs[i].s)] :
        gs \in SeqsUpTo(GenrePool, MaxTitles) }

RatingInputs ==
    { [i \in DOMAIN rs |-> Rating(rs[i].tconst, rs[i].r.has, rs[i].r.avg)] :
        rs \in SeqsUpTo([tconst : 1..2, r : RatingPool], MaxRatings) }

(***************************************************************************)
(* sync_fight_club.py: the store                                           *)
(***************************************************************************)

\* TMDB_REGION and the region codes a document may hold providers for
Region == "US"
Regions == {"US", "AR"}

DocIds == {1, 2}

\* the value stored under tmdb.providers.<region>
Entry(region, link, f, r, b) ==
    [region |-> region, link |-> link, flatrate |-> f, rent |-> r, buy |-> b]

NoEntry == [has |-> FALSE, e |-> Entry("", "none", <<>>, <<>>, <<>>)]
Stored(e) == [has |-> TRUE, e |-> e]

NoRegions == [r \in Regions |-> NoEntry]

\* the tmdb field of a document: missing, a value that is no sub-document
\* (null, a number), or a sub-document with an optional id and an optional
\* providers field, itself missing, no sub-document, or a map of regions
NoTmdb ==
    [t |-> "absent", hasId |-> FALSE, id |-> 0, provT |-> "absent", regions |-> NoRegions]
ScalarTmdb == [NoTmdb EXCEPT !.t = "scalar"]
DocTmdb(hasId, id, provT, regions) ==
    [t |-> "doc", hasId |-> hasId, id |-> id, provT |-> provT, regions |-> regions]

Doc(title, type, year, genres, tmdb) ==
    [primaryTitle |-> title, titleType |-> type, startYear |-> year,
     genres |-> genres, tmdb |-> tmdb]

\* str.lower() on the titles of the model, as the "i" option of $regex folds
Lower(title) ==
    CASE title = "Fight Club" -> "fight club"
      [] title = "FIGHT CLUB" -> "fight club"
      [] OTHER -> title

\* the query of find_film
MatchesFilm(d, title, year) ==
    /\ d.titleType = "movie"
    /\ Lower(d.primaryTitle) = Lower(title)
    /\ d.startYear = year

\* find_film: the first matching document's _id, 0 for None
find_film(coll, title, year) ==
    LET hits == {k \in DOMAIN coll : MatchesFilm(coll[k], title, year)}
    IN  IF hits = {} THEN 0 ELSE CHOOSE k \in hits : \A j \in hits : k <= j

(***************************************************************************)
(* sync_fight_club.py: format_providers_entry                              *)
(***************************************************************************)

\* an item of an offer list of the API: a dict with its provider_name, or
\* something else
DictItem(pn) == [t |-> "dict", pn |-> pn]
OtherItem == [t |-> "other", pn |-> NoneV]

\* the value of p under an offer kind: key missing, null, or a list
AbsentOffers == [t |-> "absent", items |-> <<>>]
NullOffers == [t |-> "null", items |-> <<>>]
Offers(items) == [t |-> "list", items |-> items]

\* the answer of tmdb_get_providers: an HTTP error, or the region's dict
RawError ==
    [t |-> "error", link |-> "none",
     flatrate |-> AbsentOffers, rent |-> AbsentOffers, buy |-> AbsentOffers]
Raw(link, f, r, b) ==
    [t |-> "ok", link |-> link, flatrate |-> f, rent |-> r, buy |-> b]

\* the comprehension of names(kind) over a list
RECURSIVE ProviderNames(_)
ProviderNames(items) ==
    IF items = <<>> THEN <<>>
    ELSE (IF Head(items).t = "dict" /\ Truthy(Head(items).pn)
          THEN <<Head(items).pn.s>> ELSE <<>>)
         \o ProviderNames(Tail(items))

\* names(kind): p.get(kind, []) is None for an explicit null, and iterating
\* None raises TypeError
names(p, kind) ==
    IF p[kind].t = "null" THEN [raised |-> TRUE, names |-> <<>>]
    ELSE [raised |-> FALSE, names |-> ProviderNames(p[kind].items)]

format_providers_entry(p) ==
    LET f == names(p, "flatrate")
        r == names(p, "rent")
        b == names(p, "buy")
    IN  IF f.raised \/ r.raised \/ b.raised THEN Raised
        ELSE Returned(Entry(Region, p.link, f.names, r.names, b.names))

(***************************************************************************)
(* sync_fight_club.py: the updates                                         *)
(***************************************************************************)

\* $set on a dotted path fails when a prefix of the path holds a value that
\* is no sub-document
SetFails(tmdb) == tmdb.t = "scalar" \/ (tmdb.t = "doc" /\ tmdb.provT = "scalar")

\* a $set of the whole providers map: the other regions are lost
SetProvidersWhole(tmdb, providers) ==
    [tmdb EXCEPT !.t = "doc", !.provT = "doc",
                 !.regions = [NoRegions EXCEPT ![Region] = Stored(providers)]]

\* $set of tmdb.providers.<TMDB_REGION>
SetRegion(tmdb, providers) ==
    [tmdb EXCEPT !.t = "doc", !.provT = "doc",
                 !.regions = [@ EXCEPT ![Region] = Stored(providers)]]

\* $set of tmdb.id
SetId(tmdb, tmdb_id) == [tmdb EXCEPT !.t = "doc", !.hasId = TRUE, !.id = tmdb_id]

\* update_movie_with_tmdb: the collection afterwards, and whether update_one
\* raised
update_movie_with_tmdb(coll, mongo_id, tmdb_id, providers) ==
    IF mongo_id \notin DOMAIN coll THEN [raised |-> FALSE, coll |-> coll]
    ELSE IF SetFails(coll[mongo_id].tmdb) THEN [raised |-> TRUE, coll |-> coll]
    ELSE [raised |-> FALSE,
          coll |-> [coll EXCEPT ![mongo_id].tmdb = SetRegion(SetId(@, tmdb_id), providers)]]

HasTmdbId(d, tmdb_id) == d.tmdb.t = "doc" /\ d.tmdb.hasId /\ d.tmdb.id = tmdb_id

\* update_by_tmdb_id: update_many visits the matching documents in _id order
\* and stops at the first write error
RECURSIVE UpdateMany(_, _, _, _)
UpdateMany(coll, ids, tmdb_id, providers) ==
    IF ids = {} THEN [raised |-> FALSE, coll |-> coll]
    ELSE LET k == CHOOSE i \in ids : \A j \in ids : i <= j
         IN  IF ~HasTmdbId(coll[k], tmdb_id)
             THEN UpdateMany(coll, ids \ {k}, tmdb_id, providers)
             ELSE IF SetFails(coll[k].tmdb) THEN [raised |-> TRUE, coll |-> coll]
             ELSE UpdateMany([coll EXCEPT ![k].tmdb = SetRegion(@, providers)],
                             ids \ {k}, tmdb_id, providers)

update_by_tmdb_id(coll, tmdb_id, providers) ==
    UpdateMany(coll, DOMAIN coll, tmdb_id, providers)

(***************************************************************************)
(* sync_fight_club.py: main                                                *)
(***************************************************************************)

Idle == [op |-> "idle", outcome |-> "idle", id |-> 0]
Ran(op, outcome, id) == [op |-> op, outcome |-> outcome, id |-> id]

\* the answer of tmdb_search_movie: an HTTP error, no result, or a hit
SearchError == [t |-> "error", id |-> 0]
NoHit == [t |-> "none", id |-> 0]
Hit(id) == [t |-> "hit", id |-> id]

\* main on the stored collection, given what TMDB answers
main(coll, hit, raw) ==
    LET doc == find_film(coll, "Fight Club", 1999)
        fmt == format_providers_entry(raw)
        upd == update_movie_with_tmdb(coll, doc, hit.id, fmt.value)
    IN  IF doc = 0 THEN [run |-> Ran("main", "not_found", 0), coll |-> coll]
        ELSE IF hit.t = "error" THEN [run |-> Ran("main", "api_error", doc), coll |-> coll]
        ELSE IF hit.t = "none" THEN [run |-> Ran("main", "no_hit", doc), coll |-> coll]
        ELSE IF raw.t = "error" THEN [run |-> Ran("main", "api_error", doc), coll |-> coll]
        ELSE IF fmt.raised THEN [run |-> Ran("main", "type_error", doc), coll |-> coll]
        ELSE IF upd.raised THEN [run |-> Ran("main", "write_error", doc), coll |-> coll]
        ELSE [run |-> Ran("main", "updated", doc), coll |-> upd.coll]

(***************************************************************************)
(* Inputs of sync_fight_club.py                                            *)
(***************************************************************************)

MaxOffers == 2

OfferKinds == {"flatrate", "rent", "buy"}

ItemPool ==
    { DictItem(StrV(<<"N">>)), DictItem(StrV(<<"A">>)), DictItem(NoneV), OtherItem }

\* the region's dict of the API: the offers in the order given, one kind
\* possibly null
RawInput(offers, nullKind) ==
    LET val(kind) ==
            IF nullKind = kind THEN NullOffers
            ELSE IF ItemsOf(offers, kind) = <<>> THEN AbsentOffers
            ELSE Offers(ItemsOf(offers, kind))
    IN  Raw("url", val("flatrate"), val("rent"), val("buy"))

RawInputs ==
    {RawError}
    \cup {RawInput(offers, nullKind) :
            offers \in SeqsUpTo([key : OfferKinds, e : ItemPool], MaxOffers),
            nullKind \in {"-", "rent"}}

HitInputs == {SearchError, NoHit, Hit(550)}

OldEntry(region) == Stored(Entry(region, "url", <<<<"N">>>>, <<>>, <<>>))

TmdbPool1 ==
    { NoTmdb, ScalarTmdb,
      DocTmdb(FALSE, 0, "scalar", NoRegions),
      DocTmdb(TRUE, 550, "doc", [NoRegions EXCEPT !["AR"] = OldEntry("AR")]),
      DocTmdb(TRUE, 551, "doc", [r \in Regions |-> OldEntry(r)]) }

TmdbPool2 ==
    { NoTmdb,
      DocTmdb(TRUE, 550, "absent", NoRegions),
      DocTmdb(TRUE, 550, "doc", [NoRegions EXCEPT !["AR"] = OldEntry("AR")]) }

DocPool1 ==
    { Doc(title.t, "movie", title.y, "Drama", tmdb) :
        title \in {[t |-> "Fight Club", y |-> 1999], [t |-> "FIGHT CLUB", y |-> 1999],
                   [t |-> "Heat", y |-> 1995]},
        tmdb \in TmdbPool1 }

DocPool2 ==
    { Doc("Fight Club", type, 1999, "Drama", tmdb) :
        type \in {"movie", "tvSeries"}, tmdb \in TmdbPool2 }

\* arguments of direct calls of the update functions
KeyArgs == {1, 2, 3}
TmdbIdArgs == {550, 551}
ProviderArgs ==
    { Entry(Region, "url", <<<<"N">>>>, <<>>, <<<<"A">>>>),
      Entry(Region, "none", <<>>, <<>>, <<>>) }

(***************************************************************************)
(* Specifications                                                          *)
(***************************************************************************)

ProvidersIdle == pregion = NoneP /\ provs = Pending
YearIdle == yearIn = NoneY /\ yearOut = PendingY
ReportIdle ==
    titles = <<>> /\ ratings = <<>> /\ ratingsUp = TRUE /\ report = PendingReport
SyncIdle ==
    /\ collection = [k \in DocIds |-> Doc("Heat", "movie", 1995, "Drama", NoTmdb)]
    /\ run = Idle

providersVars == <<pregion, provs>>
yearVars == <<yearIn, yearOut>>
reportVars == <<titles, ratings, ratingsUp, report>>
syncVars == <<collection, run>>

\* providers_to_list applied to an argument
InitProviders ==
    /\ pregion \in NormInputs
    /\ provs = Pending
    /\ YearIdle /\ ReportIdle /\ SyncIdle

ProvidersToList ==
    /\ ~provs.done
    /\ provs' = providers_to_list(pregion)
    /\ UNCHANGED <<pregion, yearVars, reportVars, syncVars>>

SpecProviders == InitProviders /\ [][ProvidersToList]_vars

\* coerce_year and to_int_or_none applied to the same argument
InitYear ==
    /\ yearIn \in YearInputs
    /\ yearOut = PendingY
    /\ ProvidersIdle /\ ReportIdle /\ SyncIdle

CoerceYear ==
    /\ ~yearOut.done
    /\ yearOut' = [done |-> TRUE, coerce |-> coerce_year(yearIn),
                    toint |-> to_int_or_none(yearIn)]
    /\ UNCHANGED <<yearIn, providersVars, reportVars, syncVars>>

SpecYear == InitYear /\ [][CoerceYear]_vars

\* avg_rating_by_genre_last5 on the two collections
InitReport ==
    /\ titles \in TitleInputs
    /\ ratingsUp \in BOOLEAN
    /\ ratings \in (IF ratingsUp THEN RatingInputs ELSE {<<>>})
    /\ report = PendingReport
    /\ ProvidersIdle /\ YearIdle /\ SyncIdle

AvgRatingByGenreLast5 ==
    /\ ~report.done
    /\ report' = avg_rating_by_genre_last5(titles, ratings, ratingsUp)
    /\ UNCHANGED <<titles, ratings, ratingsUp, providersVars, yearVars, syncVars>>

SpecReport == InitReport /\ [][AvgRatingByGenreLast5]_vars

\* the script of sync_fight_club.py, run once on a stored collection, and its
\* update functions called directly
InitSync ==
    /\ \E d1 \in DocPool1, d2 \in DocPool2 :
          collection = [k \in DocIds |-> IF k = 1 THEN d1 ELSE d2]
    /\ run = Idle
    /\ ProvidersIdle /\ YearIdle /\ ReportIdle

Main ==
    /\ run = Idle
    /\ \E hit \in HitInputs, raw \in RawInputs :
          LET res == main(collection, hit, raw)
          IN  run' = res.run /\ collection' = res.coll
    /\ UNCHANGED <<providersVars, yearVars, reportVars>>

UpdateMovieWithTmdb(mongo_id, tmdb_id, providers) ==
    /\ run.op # "main"
    /\ LET res == update_movie_with_tmdb(collection, mongo_id, tmdb_id, providers)
       IN  /\ collection' = res.coll
           /\ run' = Ran("update_movie_with_tmdb",
                         IF res.raised THEN "write_error" ELSE "ok", mongo_id)
    /\ UNCHANGED <<providersVars, yearVars, reportVars>>

UpdateByTmdbId(tmdb_id, providers) ==
    /\ run.op # "main"
    /\ LET res == update_by_tmdb_id(collection, tmdb_id, providers)
       IN  /\ collection' = res.coll
           /\ run' = Ran("update_by_tmdb_id",
                         IF res.raised THEN "write_error" ELSE "ok", 0)
    /\ UNCHANGED <<providersVars, yearVars, reportVars>>

UpdateOne ==
    \E k \in KeyArgs, x \in TmdbIdArgs, p \in ProviderArgs : UpdateMovieWithTmdb(k, x, p)

UpdateAll ==
    \E x \in TmdbIdArgs, p \in ProviderArgs : UpdateByTmdbId(x, p)

NextSync == Main \/ UpdateOne \/ UpdateAll

SpecSync == InitSync /\ [][NextSync]_vars

(***************************************************************************)
(* Properties of providers_to_list                                         *)
(***************************************************************************)

\* the names one element stands for: its trimmed value, or the trimmed
\* provider_name, or failing that the trimmed name; never the empty name
Contribution(x) ==
    ( IF x.t = "str" THEN {Strip(x.s)}
      ELSE IF x.t = "dict" /\ Truthy(x.pn) THEN {Strip(ToStr(x.pn))}
      ELSE IF x.t = "dict" /\ Truthy(x.nm) THEN {Strip(ToStr(x.nm))}
      ELSE {} ) \ {<<>>}

\* the names pooled from the flatrate, rent and buy lists of a dict
PooledNames(p) ==
    UNION { UNION {Contribution(p[kind].items[i]) : i \in DOMAIN p[kind].items} :
              kind \in {k \in {"flatrate", "rent", "buy"} : p[k].t = "list"} }

FlatNames(p) == UNION {Contribution(p.items[i]) : i \in DOMAIN p.items}

StrictlyAscending(v) == \A i \in 1..(Len(v) - 1) : StrLess(v[i], v[i + 1])

\* C1: providers_to_list never raises and returns a list for every argument,
\* and an argument that is neither a list nor a dict gives the empty list.
C1_ProvidersTotal ==
    provs.done =>
        /\ ~provs.raised
        /\ DOMAIN provs.value = 1..Len(provs.value)
        /\ (pregion.t \notin {"list", "dict"} => provs.value = <<>>)

\* a dict whose flatrate value is a truthy non-list was normalised to a
\* non-empty list
C1_Witness ==
    /\ provs.done /\ ~provs.raised
    /\ pregion.t = "dict"
    /\ pregion.flatrate.t = "other" /\ pregion.flatrate.truthy
    /\ provs.value # <<>>

\* C2: the returned list is ascending, holds every distinct name of the
\* argument exactly once, and holds no empty or whitespace-only name.
C2_ProvidersSortedUnique ==
    provs.done =>
        /\ StrictlyAscending(provs.value)
        /\ \A i \in DOMAIN provs.value : Strip(provs.value[i]) # <<>>
        /\ pregion.t = "list" => Range(provs.value) = FlatNames(pregion)
        /\ pregion.t = "dict" => Range(provs.value) = PooledNames(pregion)

\* a flat list given in descending order, with blanks to trim, came back
\* reordered
C2_Witness ==
    /\ provs.done
    /\ pregion = ListP(<<StrE(<<" ", "B", " ">>), StrE(<<"A", " ", "b">>)>>)
    /\ provs.value = << <<"A", " ", "b">>, <<"B">> >>

\* C3: for a dict the result is exactly the set of names pooled from the
\* flatrate, rent and buy lists, each once; other keys and kinds whose value
\* is no list add nothing; {flatrate: [{provider_name: B}], rent: ["A b"],
\* buy: []} gives ["A b", "B"].
C3_ProvidersPooled ==
    (provs.done /\ pregion.t = "dict") =>
        /\ Range(provs.value) = PooledNames(pregion)
        /\ Len(provs.value) = Cardinality(PooledNames(pregion))
        /\ ( /\ pregion.flatrate = ListKind(<<DictE(StrV(<<"B">>), NoneV)>>)
             /\ pregion.rent = ListKind(<<StrE(<<"A", " ", "b">>)>>)
             /\ pregion.buy = ListKind(<<>>)
             => provs.value = << <<"A", " ", "b">>, <<"B">> >> )

\* the same name under two kinds, one of them buy, came out once
C3_Witness ==
    /\ provs.done
    /\ pregion.t = "dict"
    /\ pregion.flatrate = ListKind(<<DictE(StrV(<<"B">>), NoneV)>>)
    /\ pregion.buy = ListKind(<<StrE(<<" ", "B", " ">>)>>)
    /\ provs.value = << <<"B">> >>

(***************************************************************************)
(* Properties of coerce_year and to_int_or_none                            *)
(***************************************************************************)

\* a decimal numeral, blanks around it and a minus sign before it allowed
NumeralBody(s) == IF Strip(s) # <<>> /\ Head(Strip(s)) = "-" THEN Tail(Strip(s)) ELSE Strip(s)

IsNumeral(s) ==
    /\ NumeralBody(s) # <<>>
    /\ \A i \in DOMAIN NumeralBody(s) :
          NumeralBody(s)[i] \in {"0", "1", "2", "3", "4", "5", "6", "7", "8", "9"}

RECURSIVE DropZeros(_)
DropZeros(ds) == IF Len(ds) > 1 /\ Head(ds) = "0" THEN DropZeros(Tail(ds)) ELSE ds

Abs(n) == IF n < 0 THEN 0 - n ELSE n

YearAsClaimed(v, r) ==
    /\ ~r.raised
    /\ v.t = "none" => r.none
    /\ v = StrY(<<>>) => r.none
    /\ v = StrY(<<"\\", "N">>) => r.none
    /\ v = StrY(<<"1", "9", "9", "9">>) => r = IntR(1999)
    /\ v = StrY(<<"a", "b", "c">>) => r.none
    /\ v.t = "int" => r = IntR(v.n)
    /\ v.t = "float" => (~r.none /\ 1000 * Abs(r.n) <= Abs(v.n) /\ Abs(v.n) < 1000 * (Abs(r.n) + 1))
    /\ v.t \in {"nan", "other"} => r.none
    /\ (v.t = "str" /\ IsNumeral(v.s)) =>
          (~r.none /\ IntToStr(Abs(r.n)) = DropZeros(NumeralBody(v.s))
                   /\ (r.n < 0 => Head(Strip(v.s)) = "-"))
    /\ (v.t = "str" /\ ~IsNumeral(v.s)) => r.none

\* C8: coerce_year and to_int_or_none give None for None, "" and "\N", the
\* integer for what converts to one ("1999" gives 1999), None for anything
\* else ("abc", a wrong type), and never raise.
C8_YearCoerced ==
    yearOut.done =>
        /\ YearAsClaimed(yearIn, yearOut.coerce)
        /\ YearAsClaimed(yearIn, yearOut.toint)

\* "abc" was coerced to None by both functions
C8_Witness ==
    /\ yearOut.done
    /\ yearIn = StrY(<<"a", "b", "c">>)
    /\ yearOut.coerce = NoneR /\ yearOut.toint = NoneR

(***************************************************************************)
(* Properties of avg_rating_by_genre_last5                                 *)
(***************************************************************************)

TagList(i) == IF titles[i].has THEN GenresList(titles[i].genres) ELSE <<>>

\* (title, rating record, tag position) triples that put a rating under g
Contribs(g) ==
    UNION { UNION { { <<i, j, k>> : k \in {n \in DOMAIN TagList(i) : TagList(i)[n] = g} } :
                      j \in {m \in DOMAIN ratings :
                                ratings[m].tconst = titles[i].tconst /\ ratings[m].has} } :
              i \in DOMAIN titles }

RECURSIVE SumRatings(_)
SumRatings(cs) ==
    IF cs = {} THEN 0
    ELSE LET c == CHOOSE x \in cs : TRUE
         IN  ratings[c[2]].avg + SumRatings(cs \ {c})

AllTags == UNION {Range(TagList(i)) : i \in DOMAIN titles}

OutGenres == {report.out[i].genre : i \in DOMAIN report.out}

\* C4: the rows are in descending order of the full-precision mean, equal
\* means in ascending order of genre; the displayed rows keep that order and
\* are rounded afterwards.
C4_ReportOrdered ==
    report.status = "table" =>
        /\ Len(report.shown) = Len(report.out)
        /\ \A i \in 1..(Len(report.shown) - 1) :
              LET a  == report.shown[i].genre
                  b  == report.shown[i + 1].genre
                  ma == SumRatings(Contribs(a)) * Cardinality(Contribs(b))
                  mb == SumRatings(Contribs(b)) * Cardinality(Contribs(a))
              IN  ma > mb \/ (ma = mb /\ StrLess(a, b))

\* two genres displayed with the same rounded mean stand in descending
\* alphabetical order, because their full-precision means differ
C4_Witness ==
    /\ report.status = "table"
    /\ \E i \in 1..(Len(report.shown) - 1) :
          /\ report.shown[i].avg = report.shown[i + 1].avg
          /\ StrLess(report.shown[i + 1].genre, report.shown[i].genre)

\* the titles carrying tag g that have a rating, each once
RatedTitles(g) ==
    { i \in DOMAIN titles :
        /\ g \in Range(TagList(i))
        /\ \E j \in DOMAIN ratings :
              ratings[j].tconst = titles[i].tconst /\ ratings[j].has }

RatingOf(i) ==
    ratings[CHOOSE j \in DOMAIN ratings : ratings[j].tconst = titles[i].tconst].avg

RECURSIVE SumTitles(_)
SumTitles(is) ==
    IF is = {} THEN 0
    ELSE LET i == CHOOSE x \in is : TRUE IN RatingOf(i) + SumTitles(is \ {i})

OneRatingPerTitle ==
    \A j, k \in DOMAIN ratings : ratings[j].tconst = ratings[k].tconst => j = k

\* C5: with at most one rating record per title, the mean reported for a
\* genre is the mean of the ratings of the rated titles carrying the tag,
\* each title counted once.
C5_ReportMeanPerTitle ==
    (report.status = "table" /\ OneRatingPerTitle) =>
        \A i \in DOMAIN report.out :
            LET g == report.out[i].genre
            IN  /\ RatedTitles(g) # {}
                /\ report.out[i].sum * Cardinality(RatedTitles(g))
                     = SumTitles(RatedTitles(g)) * report.out[i].cnt

\* C6: the join keeps every title; a title without a rating adds nothing to
\* any genre (neither a row nor a zero), and a genre is reported exactly
\* when some title carrying it has a rating.
C6_ReportSkipsUnrated ==
    /\ report.done =>
          \A i \in DOMAIN titles :
              \E j \in DOMAIN report.joined : report.joined[j].tconst = titles[i].tconst
    /\ report.status \in {"table", "no_ratings"} =>
          /\ OutGenres = {g \in AllTags : Contribs(g) # {}}
          /\ \A i \in DOMAIN report.out :
                /\ report.out[i].cnt = Cardinality(Contribs(report.out[i].genre))
                /\ report.out[i].sum = SumRatings(Contribs(report.out[i].genre))

\* a table was produced although some title carrying a reported genre has no
\* rating
C6_Witness ==
    /\ report.status = "table"
    /\ \E i \in DOMAIN titles :
          /\ Range(TagList(i)) \cap OutGenres # {}
          /\ \A j \in DOMAIN ratings :
                ratings[j].tconst = titles[i].tconst => ~ratings[j].has

\* C7: when there are titles in the window and the ratings cannot be read or
\* are empty, the run does not fail and ends with the message about ratings,
\* not the one about titles.
C7_ReportDegrades ==
    (report.done /\ titles # <<>> /\ (~ratingsUp \/ ratings = <<>>)) =>
        report.status = "no_ratings"

(***************************************************************************)
(* Properties of sync_fight_club.py                                        *)
(***************************************************************************)

\* everything of a document but tmdb.id and tmdb.providers.<TMDB_REGION>
SameButIdAndRegion(d, e) ==
    /\ e.primaryTitle = d.primaryTitle
    /\ e.titleType = d.titleType
    /\ e.startYear = d.startYear
    /\ e.genres = d.genres
    /\ \A r \in Regions \ {Region} : e.tmdb.regions[r] = d.tmdb.regions[r]

\* C9: update_movie_with_tmdb changes nothing but tmdb.id and
\* tmdb.providers.<TMDB_REGION> of the document whose key is given, and a
\* second application with the same arguments changes nothing at all.
C9_UpdateFrame ==
    [][ \A k \in KeyArgs, x \in TmdbIdArgs, p \in ProviderArgs :
          UpdateMovieWithTmdb(k, x, p) =>
            /\ \A j \in DocIds \ {k} : collection'[j] = collection[j]
            /\ k \in DocIds => SameButIdAndRegion(collection[k], collection'[k])
            /\ update_movie_with_tmdb(collection', k, x, p).coll = collection' ]_vars

\* a document holding providers of another region received the id and the
\* providers of the configured region
C9_Witness ==
    /\ run = Ran("update_movie_with_tmdb", "ok", 1)
    /\ collection[1].tmdb.regions["AR"] = OldEntry("AR")
    /\ collection[1].tmdb.regions[Region].has
    /\ collection[1].tmdb.regions[Region].e \in ProviderArgs
    /\ collection[1].tmdb.hasId

\* C10: what main writes under tmdb.providers.<TMDB_REGION> has its three
\* lists present, each deduplicated and in alphabetical order.
C10_WrittenCanonical ==
    (run.op = "main" /\ run.outcome = "updated") =>
        LET w == collection[run.id].tmdb.regions[Region]
        IN  /\ w.has
            /\ StrictlyAscending(w.e.flatrate)
            /\ StrictlyAscending(w.e.rent)
            /\ StrictlyAscending(w.e.buy)

====
